---- MODULE Spec2Model ----
(***************************************************************************)
(* Model of edit_transducer.py: the factored edit transducer               *)
(* (EditTransducer), the distance calculator (LevenshteinDistance) and the *)
(* closest-match search over a fixed lexicon (LevenshteinAutomaton).       *)
(*                                                                         *)
(* A weighted transducer is a record                                       *)
(*   [n, start, finals, arcs]                                              *)
(* whose states are the integers 0..n-1 and whose arcs are records         *)
(*   [src, ilabel, olabel, weight, dst].                                   *)
(* Weights live in the tropical (min, +) semiring.  They are stored in     *)
(* units of one half, so that the weight cost / 2 of the source is the     *)
(* integer cost, and a distance d of the source is the integer 2 * d.      *)
(* A string is a sequence of symbols.                                      *)
(***************************************************************************)
EXTENDS Integers, Sequences, FiniteSets

\* ------------------------------------------------------------------ bounds
MaxLen == 2
MaxCost == 2
MaxLex == 2

\* ----------------------------------------------------------------- symbols
\* The symbols a string may be made of, in a fixed order; the last one is
\* outside the alphabet the transducer is built with.
SymbolOrder == <<"a", "b", "z">>
Sigma == {SymbolOrder[i] : i \in 1..Len(SymbolOrder)}
Alphabet == {"a", "b"}

Epsilon == "<epsilon>"
DELETE == "<delete>"
INSERT == "<insert>"
SUBSTITUTE == "<substitute>"

NoStateId == -1

DEFAULT_INSERT_COST == 1
DEFAULT_DELETE_COST == 1
DEFAULT_SUBSTITUTE_COST == 1

StringsUpTo(n) == UNION {[1..k -> Sigma] : k \in 0..n}
Strings == StringsUpTo(MaxLen)
InAlphabet(s) == \A i \in 1..Len(s) : s[i] \in Alphabet

Min(S) == CHOOSE x \in S : \A y \in S : x <= y
Max(S) == CHOOSE x \in S : \A y \in S : x >= y

\* ------------------------------------------------ the automaton primitives
Arc(s, il, ol, w, d) ==
  [src |-> s, ilabel |-> il, olabel |-> ol, weight |-> w, dst |-> d]

EmptyFst == [n |-> 0, start |-> NoStateId, finals |-> {}, arcs |-> {}]

RECURSIVE Reach(_, _)
\* The states reachable from S along the (src, dst) pairs of E.
Reach(E, S) ==
  LET T == S \cup {e[2] : e \in {e \in E : e[1] \in S}}
  IN IF T = S THEN S ELSE Reach(E, T)

\* Trimming: only the states on a successful path stay; an automaton without
\* a successful path has no state at all and its start is NoStateId.
Connect(fst) ==
  IF fst.start = NoStateId THEN EmptyFst
  ELSE LET fw == {<<a.src, a.dst>> : a \in fst.arcs}
           bw == {<<a.dst, a.src>> : a \in fst.arcs}
           acc == Reach(fw, {fst.start})
           coacc == Reach(bw, fst.finals)
           keep == acc \cap coacc
       IN IF fst.start \notin keep THEN EmptyFst
          ELSE [n |-> fst.n, start |-> fst.start,
                finals |-> fst.finals \cap keep,
                arcs |-> {a \in fst.arcs : a.src \in keep /\ a.dst \in keep}]

\* compose(A, B): the state (p, q) of the result is numbered p * B.n + q, so
\* the start state is state 0 when both starts are.  The result is trimmed.
Compose(A, B) ==
  IF A.start = NoStateId \/ B.start = NoStateId THEN EmptyFst
  ELSE
  LET pair(p, q) == p * B.n + q
      matched == {ab \in A.arcs \X B.arcs :
                    ab[1].olabel = ab[2].ilabel /\ ab[1].olabel # Epsilon}
      left == {a \in A.arcs : a.olabel = Epsilon}
      right == {b \in B.arcs : b.ilabel = Epsilon}
  IN Connect(
       [n |-> A.n * B.n,
        start |-> pair(A.start, B.start),
        finals |-> {pair(p, q) : p \in A.finals, q \in B.finals},
        arcs |->
          {Arc(pair(ab[1].src, ab[2].src), ab[1].ilabel, ab[2].olabel,
               ab[1].weight + ab[2].weight, pair(ab[1].dst, ab[2].dst)) :
             ab \in matched}
          \cup {Arc(pair(aq[1].src, aq[2]), aq[1].ilabel, Epsilon,
                    aq[1].weight, pair(aq[1].dst, aq[2])) :
                  aq \in left \X (0..(B.n - 1))}
          \cup {Arc(pair(pb[1], pb[2].src), Epsilon, pb[2].olabel,
                    pb[2].weight, pair(pb[1], pb[2].dst)) :
                  pb \in (0..(A.n - 1)) \X right}])

\* A string compiled to a linear acceptor: state i after i symbols.
StringAcceptor(s) ==
  [n |-> Len(s) + 1, start |-> 0, finals |-> {Len(s)},
   arcs |-> {Arc(i - 1, s[i], s[i], 0, i) : i \in 1..Len(s)}]

\* As SymbolUnion, but over every symbol a string may hold.
SymbolUnionAnySymbol(symbols) ==
  [n |-> 2, start |-> 0, finals |-> {1},
   arcs |-> {Arc(0, x, x, 0, 1) : x \in Sigma}]

\* union(*alphabet): one arc per symbol from the start to the final state.
SymbolUnion(symbols) ==
  [n |-> 2, start |-> 0, finals |-> {1},
   arcs |-> {Arc(0, x, x, 0, 1) : x \in symbols}]

\* transducer(istring, "[tag]", weight): the cross product of the input
\* labels (Epsilon for the empty string) with the tag.
Transducer(ilabels, tag, w) ==
  [n |-> 2, start |-> 0, finals |-> {1},
   arcs |-> {Arc(0, x, tag, w, 1) : x \in ilabels}]

\* union of one-arc machines, optimized: they share start and final state.
Union(fsts) ==
  [n |-> 2, start |-> 0, finals |-> {1},
   arcs |-> UNION {f.arcs : f \in fsts}]

\* invert: the two tapes change places.
Invert(fst) ==
  [fst EXCEPT !.arcs =
     {Arc(a.src, a.olabel, a.ilabel, a.weight, a.dst) : a \in fst.arcs}]

\* As RelabelPairs, but only the pair that replaces INSERT is applied.
RelabelInsertOnly(fst, ipairs) ==
  LET new(l) == IF l = INSERT /\ \E p \in ipairs : p[1] = l
                THEN (CHOOSE p \in ipairs : p[1] = l)[2] ELSE l
  IN [fst EXCEPT !.arcs =
        {Arc(a.src, new(a.ilabel), a.olabel, a.weight, a.dst) : a \in fst.arcs}]

\* relabel_pairs(ipairs=...): input labels are replaced, all at once.
RelabelPairs(fst, ipairs) ==
  LET new(l) == IF \E p \in ipairs : p[1] = l
                THEN (CHOOSE p \in ipairs : p[1] = l)[2] ELSE l
  IN [fst EXCEPT !.arcs =
        {Arc(a.src, new(a.ilabel), a.olabel, a.weight, a.dst) : a \in fst.arcs}]

\* As Closure, but one or more repetitions: the start state is not final.
ClosurePlus(fst) ==
  [n |-> 2, start |-> 0, finals |-> {1},
   arcs |-> {Arc(s, a.ilabel, a.olabel, a.weight, 1) :
               a \in fst.arcs, s \in {0, 1}}]

\* closure().optimize(): zero or more repetitions of the one-arc paths; after
\* optimization a single state, start and final, carries every arc as a loop.
Closure(fst) ==
  [n |-> 1, start |-> 0, finals |-> {0},
   arcs |-> {Arc(0, a.ilabel, a.olabel, a.weight, 0) : a \in fst.arcs}]

RECURSIVE DistToFinal(_, _)
\* The least weight of a path from state s to a final state of an acyclic,
\* trimmed automaton.
DistToFinal(fst, s) ==
  Min((IF s \in fst.finals THEN {0} ELSE {})
      \cup {a.weight + DistToFinal(fst, a.dst) :
              a \in {a \in fst.arcs : a.src = s}})

\* shortestdistance(lattice, reverse=True): for each state, the least weight
\* to a final state.
ShortestDistanceReverse(fst) ==
  [s \in {fst.start} \cup {a.dst : a \in fst.arcs} |-> DistToFinal(fst, s)]

\* The states of a prefix tree are the prefixes, numbered in base
\* Len(SymbolOrder) + 1: the empty prefix is state 0.
SymbolIndex(x) == CHOOSE i \in 1..Len(SymbolOrder) : SymbolOrder[i] = x

RECURSIVE Code(_)
Code(p) ==
  IF p = <<>> THEN 0
  ELSE Code(SubSeq(p, 1, Len(p) - 1)) * (Len(SymbolOrder) + 1)
       + SymbolIndex(p[Len(p)])

Prefixes(strings) ==
  UNION {{SubSeq(s, 1, k) : k \in 0..Len(s)} : s \in strings}

\* A set of strings as a prefix tree over the input and output tape alike;
\* weight[p] is the weight of the arc that completes the prefix p.
PrefixTree(strings, weight) ==
  LET ps == Prefixes(strings)
  IN Connect(
       [n |-> 1 + Max({Code(p) : p \in ps \cup {<<>>}}),
        start |-> 0,
        finals |-> {Code(s) : s \in strings},
        arcs |-> {Arc(Code(SubSeq(p, 1, Len(p) - 1)), p[Len(p)], p[Len(p)],
                      weight[p], Code(p)) : p \in ps \ {<<>>}}])

\* string_map(lexicon): the union of the entries, each mapped to itself at
\* weight 0, compiled as a prefix tree.
StringMap(lex) ==
  LET strings == {lex[k] : k \in 1..Len(lex)}
  IN PrefixTree(strings, [p \in Prefixes(strings) |-> 0])

RECURSIVE DistFromStart(_, _)
\* The least weight of a path from the start to state s (acyclic, trimmed).
DistFromStart(fst, s) ==
  Min((IF s = fst.start THEN {0} ELSE {})
      \cup {DistFromStart(fst, a.src) + a.weight :
              a \in {a \in fst.arcs : a.dst = s}})

\* prune(weight=threshold): only the paths whose weight is within threshold
\* of the best path's stay.
Prune(fst, threshold) ==
  IF fst.start = NoStateId THEN fst
  ELSE LET limit == DistToFinal(fst, fst.start) + threshold
       IN Connect(
            [fst EXCEPT
               !.finals = {s \in fst.finals : DistFromStart(fst, s) <= limit},
               !.arcs = {a \in fst.arcs :
                           DistFromStart(fst, a.src) + a.weight
                             + DistToFinal(fst, a.dst) <= limit}])

\* project(True): the output label of every arc becomes its input label too.
ProjectOutput(fst) ==
  [fst EXCEPT !.arcs =
     {Arc(a.src, a.olabel, a.olabel, a.weight, a.dst) : a \in fst.arcs}]

RECURSIVE PathsFrom(_, _)
\* The successful paths from state s, each a sequence of arcs (acyclic).
PathsFrom(fst, s) ==
  (IF s \in fst.finals THEN {<<>>} ELSE {})
  \cup UNION {{<<a>> \o p : p \in PathsFrom(fst, a.dst)} :
                a \in {a \in fst.arcs : a.src = s}}

Paths(fst) == IF fst.start = NoStateId THEN {} ELSE PathsFrom(fst, fst.start)

RECURSIVE PathWeight(_)
PathWeight(p) == IF p = <<>> THEN 0 ELSE p[1].weight + PathWeight(Tail(p))

RECURSIVE Labels(_)
\* A sequence of labels as a string: epsilons are not part of it.
Labels(ls) ==
  IF ls = <<>> THEN <<>>
  ELSE (IF ls[1] = Epsilon THEN <<>> ELSE <<ls[1]>>) \o Labels(Tail(ls))

OString(p) == Labels([i \in 1..Len(p) |-> p[i].olabel])

\* optimize() of an acceptor (epsilon removal, determinization, minimization):
\* one path per accepted string, with the least weight the string has.  (The
\* weight of the empty string would be a final weight and is not kept.)
OptimizeAcceptor(fst) ==
  LET ps == Paths(fst)
      strings == {OString(p) : p \in ps}
      least(q) == Min({PathWeight(p) :
                         p \in {p \in ps : Len(OString(p)) >= Len(q)
                                   /\ SubSeq(OString(p), 1, Len(q)) = q}})
      weight == [q \in Prefixes(strings) \ {<<>>} |->
                   IF Len(q) = 1 THEN least(q)
                   ELSE least(q) - least(SubSeq(q, 1, Len(q) - 1))]
  IN PrefixTree(strings, weight)

\* optimize() of a transducer keeps its weighted relation; of the changes it
\* makes to the states and arcs only the trimming is kept here.
OptimizeTransducer(fst) == Connect(fst)

\* paths().ostrings(): the output string of every path, with the number of
\* paths that yield it.
OStrings(fst) ==
  LET ps == Paths(fst)
  IN [s \in {OString(p) : p \in ps} |->
        Cardinality({p \in ps : OString(p) = s})]

\* As ShortestPath, but any successful path is taken, not a least one.
ShortestPathAny(fst) ==
  {[n |-> Len(p) + 1, start |-> Len(p), finals |-> {0},
    arcs |-> {Arc(Len(p) - i + 1, p[i].ilabel, p[i].olabel, p[i].weight,
                  Len(p) - i) : i \in 1..Len(p)}] :
     p \in Paths(fst)}

\* shortestpath(lattice): one path of least weight, as a linear automaton
\* whose states are numbered against the direction of the path (the final
\* state is 0).  Which of several least paths is taken is not specified: this
\* is the set of the automata shortestpath may return.
ShortestPath(fst) ==
  {[n |-> Len(p) + 1, start |-> Len(p), finals |-> {0},
    arcs |-> {Arc(Len(p) - i + 1, p[i].ilabel, p[i].olabel, p[i].weight,
                  Len(p) - i) : i \in 1..Len(p)}] :
     p \in Paths(Prune(fst, 0))}

\* topsort() of a linear automaton: the states are renumbered along the path.
TopSort(fst) ==
  LET pos(s) == Cardinality(Reach({<<a.dst, a.src>> : a \in fst.arcs}, {s})) - 1
  IN [n |-> fst.n, start |-> pos(fst.start),
      finals |-> {pos(s) : s \in fst.finals},
      arcs |-> {Arc(pos(a.src), a.ilabel, a.olabel, a.weight, pos(a.dst)) :
                  a \in fst.arcs}]

\* stringify(): the output labels of a linear automaton's arcs, read in the
\* order of the states they leave.
Stringify(fst) ==
  LET from == {a.src : a \in fst.arcs}
      arcAt(k) == CHOOSE a \in fst.arcs :
                    Cardinality({s \in from : s < a.src}) = k - 1
  IN Labels([k \in 1..Cardinality(fst.arcs) |-> arcAt(k).olabel])

\* ------------------------------------------------------------- the program
VARIABLES cls, insert_cost, delete_cost, substitute_cost, lexicon,
          e_i, e_o, l_o, call, ret

vars == <<cls, insert_cost, delete_cost, substitute_cost, lexicon,
          e_i, e_o, l_o, call, ret>>

\* As Half, but the cost is not divided.
NotHalved(cost) == 2 * cost

\* cost / 2 in units of one half.
Half(cost) == cost

\* EditTransducer.__init__, left factor.
LeftOps(alphabet, ic, dc, sc) ==
  LET match == SymbolUnion(alphabet)
      i_insert == Transducer({Epsilon}, INSERT, Half(ic))
      i_delete == Transducer(alphabet, DELETE, Half(dc))
      i_substitute == Transducer(alphabet, SUBSTITUTE, Half(sc))
  IN Union({match, i_insert, i_delete, i_substitute})

\* EditTransducer.__init__, right factor.
RightOps(i_ops) ==
  RelabelPairs(Invert(i_ops), {<<INSERT, DELETE>>, <<DELETE, INSERT>>})

LeftFactor(alphabet, ic, dc, sc) == Closure(LeftOps(alphabet, ic, dc, sc))
RightFactor(alphabet, ic, dc, sc) ==
  Closure(RightOps(LeftOps(alphabet, ic, dc, sc)))

\* EditTransducer.check_wellformed_lattice
IsWellformedLattice(lattice) == lattice.start # NoStateId

\* EditTransducer._create_lattice
CreateLattice(ei, eo, iset, oset) ==
  LET li == Compose(StringAcceptor(iset), ei)
      lo == Compose(eo, StringAcceptor(oset))
  IN Compose(li, lo)

\* LevenshteinAutomaton._create_levenshtein_automaton_lattice
CreateLevenshteinAutomatonLattice(ei, lo, query) ==
  LET li == Compose(StringAcceptor(query), ei)
  IN Compose(li, lo)

\* LevenshteinAutomaton.__init__: the right factor composed with the lexicon.
FactoredLexicon(eo, lex) == OptimizeTransducer(Compose(eo, StringMap(lex)))

\* As ClosestMatchOf, but the path is not sorted before it is read.
ClosestMatchNoTopSort(lattice) ==
  {Stringify(path) : path \in ShortestPath(lattice)}

\* LevenshteinAutomaton.closest_match: the strings the call may return.
ClosestMatchOf(lattice) ==
  {Stringify(TopSort(path)) : path \in ShortestPath(lattice)}

\* As ClosestMatchesOf, but the pruned lattice is not optimized.
ClosestMatchesNoOptimize(lattice) ==
  OStrings(ProjectOutput(Prune(lattice, 0)))

\* LevenshteinAutomaton.closest_matches: the strings the iterator yields.
ClosestMatchesOf(lattice) ==
  OStrings(OptimizeAcceptor(ProjectOutput(Prune(lattice, 0))))

NoCall == [op |-> "none"]
NoRet == [status |-> "none"]
LatticeError == [status |-> "LatticeError"]
Returned(v) == [status |-> "ok", value |-> v]

Idle == call = NoCall

\* What distance(iset, oset) returns or raises, given the two factors.
DistanceOf(ei, eo, iset, oset) ==
  LET lattice == CreateLattice(ei, eo, iset, oset)
  IN IF IsWellformedLattice(lattice)
     THEN Returned(ShortestDistanceReverse(lattice)[0])
     ELSE LatticeError

\* What closest_match(query) may return or raise.
ClosestMatchResults(ei, lo, query) ==
  LET lattice == CreateLevenshteinAutomatonLattice(ei, lo, query)
  IN IF IsWellformedLattice(lattice)
     THEN {Returned(s) : s \in ClosestMatchOf(lattice)}
     ELSE {LatticeError}

\* What closest_matches(query) returns or raises.
ClosestMatchesResult(ei, lo, query) ==
  LET lattice == CreateLevenshteinAutomatonLattice(ei, lo, query)
  IN IF IsWellformedLattice(lattice)
     THEN Returned(ClosestMatchesOf(lattice))
     ELSE LatticeError

InitNew ==
  /\ cls = "none"
  /\ insert_cost = 0 /\ delete_cost = 0 /\ substitute_cost = 0
  /\ lexicon = <<>>
  /\ e_i = EmptyFst /\ e_o = EmptyFst /\ l_o = EmptyFst
  /\ call = NoCall /\ ret = NoRet

\* LevenshteinDistance(alphabet, insert_cost, delete_cost, substitute_cost)
NewLevenshteinDistance(ic, dc, sc) ==
  /\ cls = "none"
  /\ cls' = "LevenshteinDistance"
  /\ insert_cost' = ic /\ delete_cost' = dc /\ substitute_cost' = sc
  /\ e_i' = LeftFactor(Alphabet, ic, dc, sc)
  /\ e_o' = RightFactor(Alphabet, ic, dc, sc)
  /\ UNCHANGED <<lexicon, l_o, call, ret>>

\* LevenshteinAutomaton(alphabet, lexicon, insert_cost, delete_cost,
\*                      substitute_cost)
NewLevenshteinAutomaton(lex, ic, dc, sc) ==
  /\ cls = "none"
  /\ cls' = "LevenshteinAutomaton"
  /\ insert_cost' = ic /\ delete_cost' = dc /\ substitute_cost' = sc
  /\ lexicon' = lex
  /\ e_i' = LeftFactor(Alphabet, ic, dc, sc)
  /\ e_o' = RightFactor(Alphabet, ic, dc, sc)
  /\ l_o' = FactoredLexicon(RightFactor(Alphabet, ic, dc, sc), lex)
  /\ UNCHANGED <<call, ret>>

\* LevenshteinDistance.distance
Distance(iset, oset) ==
  /\ cls # "none" /\ Idle
  /\ ret' = DistanceOf(e_i, e_o, iset, oset)
  /\ call' = [op |-> "distance", iset |-> iset, oset |-> oset]
  /\ UNCHANGED <<cls, insert_cost, delete_cost, substitute_cost, lexicon,
                 e_i, e_o, l_o>>

\* LevenshteinAutomaton.closest_match
ClosestMatch(query) ==
  /\ cls = "LevenshteinAutomaton" /\ Idle
  /\ \E r \in ClosestMatchResults(e_i, l_o, query) : ret' = r
  /\ call' = [op |-> "closest_match", query |-> query]
  /\ UNCHANGED <<cls, insert_cost, delete_cost, substitute_cost, lexicon,
                 e_i, e_o, l_o>>

\* As ClosestMatches, but the projection is applied to the factored lexicon
\* itself.
ClosestMatchesInPlace(query) ==
  /\ cls = "LevenshteinAutomaton" /\ Idle
  /\ ret' = ClosestMatchesResult(e_i, l_o, query)
  /\ l_o' = ProjectOutput(l_o)
  /\ call' = [op |-> "closest_matches", query |-> query]
  /\ UNCHANGED <<cls, insert_cost, delete_cost, substitute_cost, lexicon,
                 e_i, e_o>>

\* LevenshteinAutomaton.closest_matches
ClosestMatches(query) ==
  /\ cls = "LevenshteinAutomaton" /\ Idle
  /\ ret' = ClosestMatchesResult(e_i, l_o, query)
  /\ call' = [op |-> "closest_matches", query |-> query]
  /\ UNCHANGED <<cls, insert_cost, delete_cost, substitute_cost, lexicon,
                 e_i, e_o, l_o>>

\* The caller is done with what the call returned or raised; the object is
\* ready for the next call.
Return ==
  /\ ~Idle
  /\ call' = NoCall /\ ret' = NoRet
  /\ UNCHANGED <<cls, insert_cost, delete_cost, substitute_cost, lexicon,
                 e_i, e_o, l_o>>

\* The arguments the constructors and calls are tried with.
CostArgs == (0 - 1)..MaxCost
\* <<insert_cost, delete_cost, substitute_cost>> of the automata tried: the
\* defaults, free edits, free substitution, unequal insertion and deletion,
\* substitution as dear as, and dearer than, an insertion and a deletion.
CostProfiles ==
  {<<DEFAULT_INSERT_COST, DEFAULT_DELETE_COST, DEFAULT_SUBSTITUTE_COST>>,
   <<0, 0, 1>>, <<1, 1, 0>>, <<2, 0, 1>>, <<1, 1, 2>>, <<1, 2, 4>>}
Vocabulary == {<<"a">>, <<"a", "b">>, <<"b", "b">>, <<"a", "z">>}
Lexicons == UNION {[1..k -> Vocabulary] : k \in 0..MaxLex}
Entries(lex) == {lex[k] : k \in 1..Len(lex)}

\* A LevenshteinDistance object, built with any costs, and its calls.
NextDistance ==
  \/ \E ic \in CostArgs, dc \in CostArgs, sc \in CostArgs :
       NewLevenshteinDistance(ic, dc, sc)
  \/ \E a \in Strings, b \in Strings : Distance(a, b)
  \/ Return

SpecDistance == InitNew /\ [][NextDistance]_vars

\* A LevenshteinAutomaton object and its calls; distance is called on a query
\* and itself, the empty string or an entry of the lexicon.
NextAutomaton ==
  \/ \E lex \in Lexicons, c \in CostProfiles :
       NewLevenshteinAutomaton(lex, c[1], c[2], c[3])
  \/ \E q \in Strings : \E w \in {q, <<>>} \cup Entries(lexicon) : Distance(q, w)
  \/ \E q \in Strings : ClosestMatch(q)
  \/ \E q \in Strings : ClosestMatches(q)
  \/ Return

SpecAutomaton == InitNew /\ [][NextAutomaton]_vars

\* ------------------------------------------------------------------ claims
NonNegativeCosts ==
  insert_cost >= 0 /\ delete_cost >= 0 /\ substitute_cost >= 0

Constructed == cls # "none"
IsAutomaton == cls = "LevenshteinAutomaton"
DistanceCalled == call.op = "distance"
ClosestMatchCalled == call.op = "closest_match"
ClosestMatchesCalled == call.op = "closest_matches"

RECURSIVE Reference(_, _, _, _, _)
\* The weighted edit distance of a to b by the textbook recurrence, in the
\* units of the costs: ic per inserted, dc per deleted, sc per substituted
\* symbol, matches free.
Reference(a, b, ic, dc, sc) ==
  IF a = <<>> THEN Len(b) * ic
  ELSE IF b = <<>> THEN Len(a) * dc
  ELSE Min({Reference(Tail(a), b, ic, dc, sc) + dc,
            Reference(a, Tail(b), ic, dc, sc) + ic,
            Reference(Tail(a), Tail(b), ic, dc, sc)
              + (IF a[1] = b[1] THEN 0 ELSE sc)})

\* The entries of the lexicon made of alphabet symbols only.
ValidEntries == {w \in Entries(lexicon) : InAlphabet(w)}

\* distance(q, w) of the object, in halves.
Dist(q, w) == DistanceOf(e_i, e_o, q, w).value

\* The entries of the lexicon at the least distance from q.
Closest(q) ==
  {w \in ValidEntries : \A v \in ValidEntries : Dist(q, w) <= Dist(q, v)}

\* The lexicon in every order.
Orderings(lex) ==
  {[i \in 1..Len(lex) |-> lex[f[i]]] :
     f \in {g \in [1..Len(lex) -> 1..Len(lex)] :
              \A i, j \in 1..Len(lex) : g[i] = g[j] => i = j}}

\* C1 (as claimed): with non-negative costs, distance(a, b) of two strings
\* over the alphabet is the reference weighted edit distance: insert_cost per
\* inserted, delete_cost per deleted, substitute_cost per substituted symbol.
C1_DistanceIsReference ==
  (DistanceCalled /\ NonNegativeCosts
     /\ InAlphabet(call.iset) /\ InAlphabet(call.oset))
  => ret = Returned(2 * Reference(call.iset, call.oset, insert_cost,
                                  delete_cost, substitute_cost))

\* C2: for a query over the alphabet and a non-empty lexicon over the
\* alphabet, closest_match returns an entry of the lexicon whose distance from
\* the query is the least distance of any entry.
C2_ClosestMatchIsAClosestEntry ==
  (ClosestMatchCalled /\ InAlphabet(call.query)
     /\ lexicon # <<>> /\ ValidEntries = Entries(lexicon))
  => /\ ret.status = "ok"
     /\ ret.value \in Entries(lexicon)
     /\ \A w \in Entries(lexicon) :
          Dist(call.query, ret.value) <= Dist(call.query, w)

C2_Witness ==
  /\ ClosestMatchCalled /\ InAlphabet(call.query)
  /\ ValidEntries = Entries(lexicon)
  /\ Cardinality(Entries(lexicon)) >= 2
  /\ ret.status = "ok"
  /\ Dist(call.query, ret.value) > 0
  /\ \E w \in Entries(lexicon) : Dist(call.query, ret.value) < Dist(call.query, w)

\* C3: for a query over the alphabet, closest_matches yields exactly the
\* entries at the least distance from the query, each once, and yields the
\* same for the lexicon in any order.
C3_ClosestMatchesAreTheClosestEntries ==
  (ClosestMatchesCalled /\ InAlphabet(call.query) /\ ValidEntries # {})
  => /\ ret.status = "ok"
     /\ DOMAIN ret.value = Closest(call.query)
     /\ \A s \in DOMAIN ret.value : ret.value[s] = 1
     /\ \A lex \in Orderings(lexicon) :
          ClosestMatchesResult(
            e_i, FactoredLexicon(e_o, lex), call.query) = ret

C3_Witness ==
  /\ ClosestMatchesCalled /\ InAlphabet(call.query)
  /\ ret.status = "ok"
  /\ Cardinality(DOMAIN ret.value) >= 2
  /\ insert_cost > 0 /\ delete_cost > 0 /\ substitute_cost > 0
  /\ LET paths == Paths(Prune(CreateLevenshteinAutomatonLattice(
                                e_i, l_o, call.query), 0))
     IN \E p1 \in paths, p2 \in paths : p1 # p2 /\ OString(p1) = OString(p2)

\* C4: when the query or the target holds a symbol outside the alphabet,
\* distance, closest_match and closest_matches raise LatticeError.
C4_OutOfAlphabetRaisesLatticeError ==
  /\ (DistanceCalled /\ ~(InAlphabet(call.iset) /\ InAlphabet(call.oset)))
       => ret = LatticeError
  /\ ((ClosestMatchCalled \/ ClosestMatchesCalled) /\ ~InAlphabet(call.query))
       => ret = LatticeError

C4_Witness ==
  /\ ClosestMatchCalled /\ ~InAlphabet(call.query)
  /\ ValidEntries # {}
  /\ ret = LatticeError

\* C5 (as claimed): with non-negative costs, distance(s, s) is 0 and
\* closest_match(s) is s whenever s is in the lexicon, for s over the alphabet.
C5_ExactMatchIsReturned ==
  NonNegativeCosts
  => /\ (DistanceCalled /\ call.iset = call.oset /\ InAlphabet(call.iset))
          => ret = Returned(0)
     /\ (ClosestMatchCalled /\ call.query \in ValidEntries)
          => ret = Returned(call.query)

\* C5 (amended): with non-negative costs, distance(s, s) is 0; when s is in
\* the lexicon closest_match(s) returns an entry at distance 0 from s, and it
\* returns s itself when insert_cost, delete_cost and substitute_cost are all
\* positive.
C5_ExactMatchIsReturnedWhenCostsArePositive ==
  NonNegativeCosts
  => /\ (DistanceCalled /\ call.iset = call.oset /\ InAlphabet(call.iset))
          => ret = Returned(0)
     /\ (ClosestMatchCalled /\ call.query \in ValidEntries)
          => /\ ret.status = "ok"
             /\ ret.value \in ValidEntries
             /\ Dist(call.query, ret.value) = 0
             /\ (insert_cost > 0 /\ delete_cost > 0 /\ substitute_cost > 0)
                  => ret.value = call.query

C5_Witness ==
  /\ ClosestMatchCalled /\ call.query \in ValidEntries
  /\ Cardinality(ValidEntries) >= 2
  /\ insert_cost > 0 /\ delete_cost > 0 /\ substitute_cost > 0
  /\ insert_cost # delete_cost
  /\ ret = Returned(call.query)

\* C6: if insert_cost = delete_cost, distance(a, b) = distance(b, a) for all
\* strings a, b over the alphabet.
C6_DistanceIsSymmetric ==
  (DistanceCalled /\ insert_cost = delete_cost
     /\ InAlphabet(call.iset) /\ InAlphabet(call.oset))
  => /\ ret.status = "ok"
     /\ ret = DistanceOf(e_i, e_o, call.oset, call.iset)

C6_Witness ==
  /\ DistanceCalled /\ insert_cost = delete_cost /\ insert_cost > 0
  /\ substitute_cost > 0
  /\ InAlphabet(call.iset) /\ InAlphabet(call.oset)
  /\ Len(call.iset) < Len(call.oset)
  /\ ret.status = "ok" /\ ret.value > 0

\* a and b have the same length and differ in exactly one position.
OneSubstitutionApart(a, b) ==
  /\ Len(a) = Len(b)
  /\ Cardinality({i \in 1..Len(a) : a[i] # b[i]}) = 1

\* C7: with non-negative costs, two strings over the alphabet of the same
\* length that differ in exactly one position have distance substitute_cost
\* when substitute_cost <= insert_cost + delete_cost, and insert_cost +
\* delete_cost otherwise.
C7_OneSubstitutionCosts ==
  (DistanceCalled /\ NonNegativeCosts
     /\ InAlphabet(call.iset) /\ InAlphabet(call.oset)
     /\ OneSubstitutionApart(call.iset, call.oset))
  => ret = Returned(IF substitute_cost <= insert_cost + delete_cost
                    THEN 2 * substitute_cost
                    ELSE 2 * (insert_cost + delete_cost))

C7_Witness ==
  /\ DistanceCalled /\ NonNegativeCosts
  /\ InAlphabet(call.iset) /\ InAlphabet(call.oset)
  /\ OneSubstitutionApart(call.iset, call.oset)
  /\ Len(call.iset) = 2
  /\ insert_cost + delete_cost > 0
  /\ substitute_cost > insert_cost + delete_cost
  /\ ret = Returned(2 * (insert_cost + delete_cost))

\* C8 (as claimed): construction with a negative cost fails, so distance is
\* never answered by an object that has one.
C8_NegativeCostsAreRejected ==
  (Constructed /\ DistanceCalled) => NonNegativeCosts

\* C9: whatever calls were made, the left factor, the right factor and the
\* factored lexicon are the ones a fresh construction builds, and the call
\* just made returned what it returns on a freshly constructed object.
C9_CallsLeaveTheFactorsAlone ==
  IsAutomaton
  => LET ei == LeftFactor(Alphabet, insert_cost, delete_cost, substitute_cost)
         eo == RightFactor(Alphabet, insert_cost, delete_cost, substitute_cost)
         lo == FactoredLexicon(eo, lexicon)
     IN /\ e_i = ei /\ e_o = eo /\ l_o = lo
        /\ DistanceCalled => ret = DistanceOf(ei, eo, call.iset, call.oset)
        /\ ClosestMatchCalled => ret \in ClosestMatchResults(ei, lo, call.query)
        /\ ClosestMatchesCalled => ret = ClosestMatchesResult(ei, lo, call.query)

C9_Witness ==
  /\ IsAutomaton /\ ClosestMatchesCalled
  /\ ret.status = "ok"
  /\ Cardinality(DOMAIN ret.value) < Cardinality(Entries(lexicon))
  /\ l_o = FactoredLexicon(e_o, lexicon)
  /\ l_o.start # NoStateId

\* C10: for strings over the alphabet, distance returns a value and does not
\* raise; closest_match and closest_matches return a result when
\* some entry of the lexicon is over the alphabet and raise LatticeError when
\* none is; an entry with a symbol outside the alphabet is never returned.
C10_LatticeIsEmptyOnlyWithoutAlignment ==
  /\ (DistanceCalled /\ InAlphabet(call.iset) /\ InAlphabet(call.oset))
       => ret.status = "ok"
  /\ (ClosestMatchCalled /\ InAlphabet(call.query))
       => IF ValidEntries = {} THEN ret = LatticeError
          ELSE ret.status = "ok" /\ ret.value \in ValidEntries
  /\ (ClosestMatchesCalled /\ InAlphabet(call.query))
       => IF ValidEntries = {} THEN ret = LatticeError
          ELSE /\ ret.status = "ok"
               /\ DOMAIN ret.value # {}
               /\ DOMAIN ret.value \subseteq ValidEntries

C10_Witness ==
  /\ ClosestMatchesCalled /\ call.query = <<>>
  /\ ValidEntries # {} /\ ValidEntries # Entries(lexicon)
  /\ ret.status = "ok"

====
